---------------------------- MODULE Spec2Model ----------------------------
(***************************************************************************)
(* Model of encse/orbit: the great-circle solver qrb (gpredict/locator.ts) *)
(* and the footprint projector calculate_footprint (gpredict/satmap.ts).   *)
(*                                                                         *)
(* Numbers.  The source computes in IEEE doubles; TLC has 32-bit integers. *)
(* Every quantity is a fixed-point integer:                                *)
(*   radians and pure ratios   in units of 1/Scale       (1e-8)            *)
(*   degrees                   in units of 1/DegScale    (microdegrees)    *)
(*   kilometres                in metres                                   *)
(*   pixels                    in units of 1/PixScale    (millipixels)     *)
(* Math.sin, cos, asin, acos, atan2 are computed (series, Newton) to       *)
(* within a few units.  A source constant is truncated toward zero to the  *)
(* resolution of its unit.  Signs of quantities below the resolution (the  *)
(* rounding noise of doubles) are not represented: inputs are chosen off   *)
(* the knife edges where that noise alone decides a branch.                *)
(***************************************************************************)
EXTENDS Integers, Sequences, FiniteSets, TLC

Scale == 10000 * 10000
Base == 100 * 100
DegScale == 1000 * 1000
PixScale == 10 * 100

Abs(a) == IF a < 0 THEN -a ELSE a
Sgn(a) == IF a < 0 THEN -1 ELSE 1

(* a*b/Scale for a, b >= 0, by halves of Base digits: no product overflows *)
MulAbs(a, b) ==
  LET a1 == a \div Base
      a0 == a % Base
      b1 == b \div Base
      b0 == b % Base
  IN a1 * b1 + ((a1 * b0 + a0 * b1 + ((a0 * b0) \div Base)) \div Base)

(* the product of two fixed-point numbers, truncated toward zero *)
Mul(a, b) == Sgn(a) * Sgn(b) * MulAbs(Abs(a), Abs(b))

RECURSIVE DivLoop(_, _, _, _)
DivLoop(r, b, q, n) ==
  IF n = 0 THEN q
  ELSE DivLoop((r * 10) % b, b, q * 10 + ((r * 10) \div b), n - 1)

(* the quotient of two fixed-point numbers, b # 0, truncated toward zero:  *)
(* long division, one decimal digit of Scale at a time                     *)
Div(a, b) ==
  Sgn(a) * Sgn(b) * DivLoop(Abs(a) % Abs(b), Abs(b), Abs(a) \div Abs(b), 8)

(* Math.PI *)
PI == 314159265
HALF_PI == PI \div 2
QUARTER_PI == PI \div 4
TWO_PI == 2 * PI

RECURSIVE Horner(_, _, _, _)
(* 1 - x2/((k-1)k) (1 - x2/((k+1)(k+2)) (...)), evaluated from k = top down *)
Horner(x2, t, k, last) ==
  IF k < last THEN t
  ELSE Horner(x2, Scale - (Mul(x2, t) \div ((k - 1) * k)), k - 2, last)

(* sine (sine = TRUE) or cosine of x in [0, pi/4], by its series *)
Series(x, sine) ==
  Mul(IF sine THEN x ELSE Scale,
      Horner(Mul(x, x), Scale, IF sine THEN 13 ELSE 14, IF sine THEN 3 ELSE 2))

(* sine or cosine on [0, pi/2]: beyond pi/4, the other one of pi/2 - x *)
SinCosQ(x, sine) ==
  Series(IF x <= QUARTER_PI THEN x ELSE HALF_PI - x, sine = (x <= QUARTER_PI))

(* r in [0, 2 pi) folded into the first quadrant *)
Fold(r) ==
  IF r <= HALF_PI THEN r
  ELSE IF r <= PI THEN PI - r
  ELSE IF r <= PI + HALF_PI THEN r - PI
  ELSE TWO_PI - r

SinPos(x) ==
  (IF x % TWO_PI <= PI THEN 1 ELSE -1) * SinCosQ(Fold(x % TWO_PI), TRUE)

CosPos(x) ==
  (IF x % TWO_PI <= HALF_PI \/ x % TWO_PI > PI + HALF_PI THEN 1 ELSE -1)
    * SinCosQ(Fold(x % TWO_PI), FALSE)

(* Math.sin, Math.cos *)
Sin(x) == Sgn(x) * SinPos(Abs(x))
Cos(x) == CosPos(Abs(x))

RECURSIVE ISqrtLoop(_, _)
ISqrtLoop(v, r) ==
  LET r2 == (r + (v \div r)) \div 2
  IN IF r2 >= r THEN r ELSE ISqrtLoop(v, r2)

RECURSIVE SqrtLoop(_, _, _)
SqrtLoop(v, r, n) ==
  LET r2 == (r + Div(v, r)) \div 2
  IN IF Abs(r2 - r) <= 1 \/ n = 0 THEN r2 ELSE SqrtLoop(v, r2, n - 1)

(* Math.sqrt on [0, 1]: integer square root, then Newton steps *)
Sqrt(v) == IF v <= 0 THEN 0 ELSE SqrtLoop(v, ISqrtLoop(v, 46340) * Base, 6)

RECURSIVE AtanHorner(_, _, _)
AtanHorner(t2, acc, k) ==
  IF k < 1 THEN acc
  ELSE AtanHorner(t2, (Scale \div k) - Mul(t2, acc), k - 2)

(* arctangent for |t| <= tan(pi/8), and on [0, 1] *)
AtanSeries(t) == Mul(t, AtanHorner(Mul(t, t), Scale \div 23, 21))
Atan01(t) ==
  (IF t <= 41421356 THEN 0 ELSE QUARTER_PI)
    + AtanSeries(IF t <= 41421356 THEN t ELSE Div(t - Scale, t + Scale))

(* atan(y/x) for x, y >= 0, not both 0 *)
AtanPos(y, x) ==
  (IF y <= x THEN 0 ELSE HALF_PI)
    + (IF y <= x THEN 1 ELSE -1)
        * Atan01(Div(IF y <= x THEN y ELSE x, IF y <= x THEN x ELSE y))

(* the angle a of (|x|, |y|) moved to the quadrant of (x, y) *)
Quadrant(y, x, a) ==
  IF x >= 0 /\ y >= 0 THEN a
  ELSE IF x < 0 /\ y >= 0 THEN PI - a
  ELSE IF x < 0 /\ y < 0 THEN -(PI - a)
  ELSE -a

(* Math.atan2 *)
Atan2(y, x) ==
  IF x = 0 /\ y = 0 THEN 0 ELSE Quadrant(y, x, AtanPos(Abs(y), Abs(x)))

(* Math.asin, Math.acos on [-1, 1] *)
Asin(x) == Atan2(x, Sqrt(Scale - Mul(x, x)))
Acos(x) == Atan2(Sqrt(Scale - Mul(x, x)), x)

(* a % m of JavaScript: the remainder takes the sign of the dividend *)
JsRem(a, m) == Sgn(a) * (Abs(a) % m)

Deg(d) == d * DegScale

(***************************************************************************)
(* gpredict/locator.ts                                                     *)
(***************************************************************************)

(* 180 / Math.PI: microdegrees per unit of radian, as a fixed-point factor *)
RADIAN == 57295780

(* 111.2 km per degree of arc: metres per microdegree, fixed-point *)
ARC_IN_KM == 11120000

(* Math.PI / 180 (satmap.ts); locator.ts divides by RADIAN to the same end *)
de2ra == 174532925

ToRadians(deg) == Mul(deg, de2ra)
ToDegrees(rad) == Mul(rad, RADIAN)

(* the range checks with the longitudes forgotten *)
qrb_einval_latitudes(lon1, lat1, lon2, lat2) ==
  (lat1 > Deg(90) \/ lat1 < Deg(-90)) \/ (lat2 > Deg(90) \/ lat2 < Deg(-90))

(* the range checks of qrb: true when qrb returns RIG_EINVAL *)
qrb_einval(lon1, lat1, lon2, lat2) ==
  \/ (lat1 > Deg(90) \/ lat1 < Deg(-90)) \/ (lat2 > Deg(90) \/ lat2 < Deg(-90))
  \/ (lon1 > Deg(180) \/ lon1 < Deg(-180)) \/ (lon2 > Deg(180) \/ lon2 < Deg(-180))

(* "Prevent ACOS() Domain Error": 89.999999999 in microdegrees *)
qrb_nudge(lat) ==
  IF lat = Deg(90) THEN 89999999
  ELSE IF lat = Deg(-90) THEN -89999999
  ELSE lat

(* tmp with the longitudes added instead of subtracted *)
qrb_tmp_sum_long(lon1, lat1, lon2, lat2) ==
  Mul(Sin(lat1), Sin(lat2)) + Mul(Mul(Cos(lat1), Cos(lat2)), Cos(lon2 + lon1))

(* tmp with cos(lat1) taken twice *)
qrb_tmp_lat1_twice(lon1, lat1, lon2, lat2) ==
  Mul(Sin(lat1), Sin(lat2)) + Mul(Mul(Cos(lat1), Cos(lat1)), Cos(lon2 - lon1))

(* tmp: the cosine of the arc between the two points, arguments in radians *)
qrb_tmp(lon1, lat1, lon2, lat2) ==
  LET delta_long == lon2 - lon1
  IN Mul(Sin(lat1), Sin(lat2)) + Mul(Mul(Cos(lat1), Cos(lat2)), Cos(delta_long))

(* the antipodal distance as a quarter of the circumference *)
qrb_quarter_distance == Mul(Deg(90), ARC_IN_KM)

(* 180.0 * ARC_IN_KM, in metres *)
qrb_antipodal_distance == Mul(Deg(180), ARC_IN_KM)

(* the bearing and its sign correction, arguments in radians, result in    *)
(* microdegrees.  az % 2 * Math.PI is (az % 2) * Math.PI in JavaScript.    *)
qrb_azimuth(lon1, lat1, lon2, lat2) ==
  LET az0 == Atan2(Mul(Sin(lon1 - lon2), Cos(lat2)),
                   Mul(Cos(lat1), Sin(lat2))
                     - Mul(Mul(Sin(lat1), Cos(lat2)), Cos(lon1 - lon2)))
      az1 == Mul(JsRem(az0, 2 * Scale), PI)
      az == ToDegrees(az1)
  IN IF lon1 > lon2 THEN -(az - Deg(360))
     ELSE IF az >= 0 THEN az
     ELSE -az

(* qrb(lon1, lat1, lon2, lat2): arguments in microdegrees; distance in     *)
(* metres, azimuth in microdegrees.  The test tmp > .999999999999999 is    *)
(* nine units of roundoff below 1 in doubles (1e-15 / 2^-53 = 9.007); it   *)
(* is kept nine units below 1 here.  -.999999 is representable as it is.   *)
qrb(lon1, lat1, lon2, lat2) ==
  IF qrb_einval(lon1, lat1, lon2, lat2)
  THEN [res |-> "RIG_EINVAL", distance |-> 0, azimuth |-> 0]
  ELSE
    LET la1 == ToRadians(qrb_nudge(lat1))
        lo1 == ToRadians(lon1)
        la2 == ToRadians(qrb_nudge(lat2))
        lo2 == ToRadians(lon2)
        tmp == qrb_tmp(lo1, la1, lo2, la2)
    IN IF tmp > Scale - 9
       THEN [res |-> "RIG_OK", distance |-> 0, azimuth |-> 0]
       ELSE IF tmp < -99999900
       THEN [res |-> "RIG_OK", distance |-> qrb_antipodal_distance, azimuth |-> 0]
       ELSE [res |-> "RIG_OK",
             distance |-> Mul(ToDegrees(Acos(tmp)), ARC_IN_KM),
             azimuth |-> qrb_azimuth(lo1, la1, lo2, la2)]

(***************************************************************************)
(* gpredict/satmap.ts.  Arrays are sequences: element i of the source is   *)
(* element i + 1 here.  A SatMap holds left_side_lon in microdegrees and   *)
(* width, height, x0, y0 in whole pixels; a Sat holds ssplat and ssplon in *)
(* microdegrees and footprint in whole kilometres.                         *)
(***************************************************************************)

(* Earth radius, metres *)
xkmper == 6378135

At(points, i) == points[i + 1]

(* the qrb calls of the two pole tests *)
north_pole_qrb(sat) == qrb(sat.ssplon, sat.ssplat, 0, Deg(90))
south_pole_qrb(sat) == qrb(sat.ssplon, sat.ssplat, 0, Deg(-90))

(* Check whether the footprint covers the North pole.  A result other than *)
(* RIG_OK is logged, and its distance compared all the same.               *)
north_pole_is_covered(sat) == north_pole_qrb(sat).distance <= 500 * sat.footprint

(* Check whether the footprint covers the South pole. *)
south_pole_is_covered(sat) == south_pole_qrb(sat).distance <= 500 * sat.footprint

pole_is_covered(sat) == north_pole_is_covered(sat) \/ south_pole_is_covered(sat)

arccos(x, y) ==
  IF x # 0 /\ y # 0
  THEN (IF y > 0 THEN 0 ELSE PI) + Acos(Div(x, y))
  ELSE 0

(* Math.abs(num / dem) > 1.0, with x/0 = Infinity and 0/0 = NaN *)
ratio_exceeds_one(num, dem) ==
  IF dem = 0 THEN num # 0 ELSE Abs(num) > Abs(dem)

RECURSIVE wrap_up(_, _, _)
(* while (v < lo) v += step *)
wrap_up(v, lo, step) == IF v < lo THEN wrap_up(v + step, lo, step) ELSE v

RECURSIVE wrap_down(_, _, _)
(* while (v > hi) v -= step *)
wrap_down(v, hi, step) == IF v > hi THEN wrap_down(v - step, hi, step) ELSE v

(* d * n / den, den > 0, without an intermediate overflow *)
Ratio(d, n, den) == (d \div den) * n + (((d % den) * n) \div den)

(* lon, lat in microdegrees to millipixels *)
lonlat_to_xy(p, lon, lat) ==
  LET x == PixScale * p.x0 + Ratio(lon - p.left_side_lon, p.width, 360000)
      y == PixScale * p.y0 + Ratio(Deg(90) - lat, p.height, 180000)
  IN [x |-> wrap_down(wrap_up(x, 0, PixScale * p.width),
                      PixScale * p.width, PixScale * p.width),
      y |-> y]

in_left_half(lon, mapbreak) ==
  \/ (lon >= mapbreak /\ lon < mapbreak + Deg(180))
  \/ (lon < mapbreak - Deg(180) /\ lon >= mapbreak - Deg(360))

(* Mirror the footprint longitude. *)
mirror_lon(sat, rangelon, mapbreak) ==
  LET diff == wrap_down(wrap_up(sat.ssplon - rangelon, 0, Deg(360)),
                        Deg(360), Deg(360))
      mlon == wrap_up(wrap_down(sat.ssplon + Abs(diff), Deg(180), Deg(360)),
                      Deg(-180), Deg(360))
  IN [warped |-> IF in_left_half(sat.ssplon, mapbreak)
                 THEN ~in_left_half(rangelon, mapbreak)
                 ELSE in_left_half(mlon, mapbreak),
      mlon |-> mlon]

RECURSIVE lower_bound(_, _, _, _, _)
(* the number of elements of the sorted s whose key is < k, by bisection *)
lower_bound(s, f, k, lo, hi) ==
  IF lo >= hi THEN lo
  ELSE LET m == (lo + hi) \div 2
       IN IF s[m + 1][f] < k
          THEN lower_bound(s, f, k, m + 1, hi)
          ELSE lower_bound(s, f, k, lo, m)

RECURSIVE merge(_, _, _)
(* the stable merge of sorted a and b (a's elements first among equals),   *)
(* around the middle element of a                                          *)
merge(a, b, f) ==
  IF a = << >> THEN b
  ELSE IF b = << >> THEN a
  ELSE LET m == (Len(a) + 1) \div 2
           p == lower_bound(b, f, a[m][f], 0, Len(b))
       IN merge(SubSeq(a, 1, m - 1), SubSeq(b, 1, p), f)
            \o <<a[m]>>
            \o merge(SubSeq(a, m + 1, Len(a)), SubSeq(b, p + 1, Len(b)), f)

RECURSIVE sort_by(_, _)
(* Array.prototype.sort with compare_coordinates_x / _y: a stable sort,    *)
(* here a merge sort                                                       *)
sort_by(points, f) ==
  IF Len(points) <= 1 THEN points
  ELSE LET m == Len(points) \div 2
       IN merge(sort_by(SubSeq(points, 1, m), f),
                sort_by(SubSeq(points, m + 1, Len(points)), f), f)

(* Sort points according to X coordinates, then anchor the ends. *)
sort_points_x(satmap, sat, points) ==
  LET s == sort_by(points, "x")
      n == Len(s)
      left == PixScale * satmap.x0
      right == PixScale * (satmap.x0 + satmap.width)
      yc == IF sat.ssplat > 0 THEN PixScale * satmap.y0
            ELSE PixScale * (satmap.y0 + satmap.height)
  IN [s EXCEPT ![2] = [x |-> left, y |-> s[1].y],
               ![n - 1] = [x |-> right, y |-> s[n].y],
               ![1] = [x |-> left, y |-> yc],
               ![n] = [x |-> right, y |-> yc]]

(* Sort points according to Y coordinates. *)
sort_points_y(satmap, sat, points) == sort_by(points, "y")

Reverse(s) == [i \in 1..Len(s) |-> s[Len(s) + 1 - i]]

RECURSIVE scan_up(_, _, _, _, _)
(* while (points1[i].x <= mid) i++   (gt = FALSE)                          *)
(* while (points1[i].x >  mid) i++   (gt = TRUE)                           *)
(* from i = lo: the first index in lo .. hi-1 where the loop stops, and hi *)
(* when it stops at none of them (by halves, to keep the evaluation flat)  *)
scan_up(points1, lo, hi, mid, gt) ==
  IF lo >= hi THEN hi
  ELSE IF hi - lo = 1
  THEN IF (At(points1, lo).x > mid) = gt THEN hi ELSE lo
  ELSE LET m == (lo + hi) \div 2
           l == scan_up(points1, lo, m, mid, gt)
       IN IF l < m THEN l ELSE scan_up(points1, m, hi, mid, gt)

RECURSIVE scan_down(_, _, _, _, _)
(* while (points1[i].x >= mid) i--   (lt = FALSE)                          *)
(* while (points1[i].x <  mid) i--   (lt = TRUE)                           *)
(* from i = hi: the first index in hi .. lo+1 (downwards) where the loop   *)
(* stops, and lo when it stops at none of them                             *)
scan_down(points1, hi, lo, mid, lt) ==
  IF hi <= lo THEN lo
  ELSE IF hi - lo = 1
  THEN IF (At(points1, hi).x < mid) = lt THEN lo ELSE hi
  ELSE LET m == (lo + hi) \div 2
           h == scan_down(points1, hi, m, mid, lt)
       IN IF h > m THEN h ELSE scan_down(points1, m, lo, mid, lt)

Threw == [threw |-> TRUE, points1 |-> << >>, points2 |-> << >>]

(* stretch end points to map borders; reading [0] of an empty array throws *)
stretch_end_points(satmap, points1, points2) ==
  LET mid == PixScale * satmap.x0 + (PixScale \div 2) * satmap.width
      left == PixScale * satmap.x0
      right == PixScale * (satmap.x0 + satmap.width)
      n1 == Len(points1)
      n2 == Len(points2)
  IN IF n1 = 0 \/ n2 = 0 THEN Threw
     ELSE IF points1[1].x > mid
     THEN [threw |-> FALSE,
           points1 |-> [points1 EXCEPT ![1].x = right, ![n1].x = right],
           points2 |-> [points2 EXCEPT ![1].x = left, ![n2].x = left]]
     ELSE [threw |-> FALSE,
           points1 |-> [points1 EXCEPT ![1].x = left, ![n1].x = left],
           points2 |-> [points2 EXCEPT ![1].x = right, ![n2].x = right]]

(* which of the three procedures split_points selects *)
split_procedure(satmap, sat, sspx) ==
  LET mid == PixScale * satmap.x0 + (PixScale \div 2) * satmap.width
  IN IF sat.ssplon >= 179400000 \/ sat.ssplon <= -179400000 THEN 1
     ELSE IF sspx < mid THEN 2
     ELSE 3

(* Split and sort polyline points. *)
split_points(satmap, sat, sspx, points1) ==
  LET n == Len(points1)
      mid == PixScale * satmap.x0 + (PixScale \div 2) * satmap.width
      proc == split_procedure(satmap, sat, sspx)
  IN IF proc = 1
     THEN stretch_end_points(satmap,
            sort_points_y(satmap, sat, SelectSeq(points1, LAMBDA p : p.x > mid)),
            sort_points_y(satmap, sat, SelectSeq(points1, LAMBDA p : ~(p.x > mid))))
     ELSE IF proc = 2
     THEN LET i0 == scan_up(points1, 0, n, mid, FALSE)
              ns == i0 - 1
              i1 == scan_up(points1, i0, n, mid, TRUE)
          IN IF i0 >= n \/ i1 >= n THEN Threw
             ELSE stretch_end_points(satmap,
                    SubSeq(points1, i1 + 1, n) \o SubSeq(points1, 1, ns + 1),
                    SubSeq(points1, i0 + 1, i1))
     ELSE LET i0 == scan_down(points1, n - 1, -1, mid, FALSE)
              ns == i0 + 1
              i1 == scan_down(points1, i0, -1, mid, TRUE)
          IN IF i0 < 0 \/ i1 < 0 THEN Threw
             ELSE stretch_end_points(satmap,
                    Reverse(SubSeq(points1, 1, i1 + 1)) \o Reverse(SubSeq(points1, ns + 1, n)),
                    Reverse(SubSeq(points1, i1 + 2, i0 + 1)))

(* what the loop body of calculate_footprint recomputes identically on     *)
(* every pass                                                              *)
range_consts(sat) ==
  [ssplon |-> ToRadians(sat.ssplon),
   sin_ssplat |-> Sin(ToRadians(sat.ssplat)),
   cos_ssplat |-> Cos(ToRadians(sat.ssplat)),
   sin_beta |-> Sin(Div(500 * sat.footprint, xkmper)),
   cos_beta |-> Cos(Div(500 * sat.footprint, xkmper)),
   north |-> north_pole_is_covered(sat)]

(* rangelat of the pass for azimuth azi, radians *)
range_lat(c, azi) ==
  Asin(Mul(c.sin_ssplat, c.cos_beta)
       + Mul(Mul(Cos(ToRadians(Deg(azi))), c.sin_beta), c.cos_ssplat))

(* rangelon of the pass, radians, before it is brought into -pi .. pi *)
range_lon(c, azi, num, dem) ==
  IF azi = 0 /\ c.north THEN c.ssplon + PI
  ELSE IF ratio_exceeds_one(num, dem) THEN c.ssplon
  ELSE IF (180 - azi) >= 0 THEN c.ssplon - arccos(num, dem)
  ELSE c.ssplon + arccos(num, dem)

(* the end of the pass: mirror the longitude, convert to map coordinates;  *)
(* rangelon and rangelat in microdegrees                                   *)
range_xy(satmap, sat, rangelon, rangelat) ==
  [warped |-> mirror_lon(sat, rangelon, satmap.left_side_lon).warped,
   s |-> lonlat_to_xy(satmap, rangelon, rangelat),
   ms |-> lonlat_to_xy(satmap, mirror_lon(sat, rangelon, satmap.left_side_lon).mlon,
                       rangelat)]

(* the pass from rangelat on *)
range_point_at(satmap, sat, c, azi, rangelat) ==
  range_xy(satmap, sat,
           ToDegrees(wrap_down(wrap_up(
             range_lon(c, azi, c.cos_beta - Mul(c.sin_ssplat, Sin(rangelat)),
                       Mul(c.cos_ssplat, Cos(rangelat))),
             -PI, TWO_PI), PI, TWO_PI)),
           ToDegrees(rangelat))

(* one pass of the loop body of calculate_footprint for azimuth azi *)
range_point(satmap, sat, c, azi) ==
  range_point_at(satmap, sat, c, azi, range_lat(c, azi))

RECURSIVE range_circle(_, _, _, _, _)
(* for (azi = lo; azi < hi; azi++): the passes of the loop, in order (by   *)
(* halves, to keep the evaluation flat)                                    *)
range_circle(satmap, sat, c, lo, hi) ==
  IF hi - lo = 1 THEN <<range_point(satmap, sat, c, lo)>>
  ELSE LET m == (lo + hi) \div 2
       IN range_circle(satmap, sat, c, lo, m) \o range_circle(satmap, sat, c, m, hi)

(* points1 after the loop: points1[azi] = sample, points1[359-azi] = mirror *)
range_circle_points(rs) ==
  LET n == Len(rs)
  IN SubSeq([i \in 1..(2 * n) |-> IF i <= n THEN rs[i].s ELSE rs[2 * n + 1 - i].ms],
            1, 2 * n)

(* the branch chosen with the warp tested before the poles *)
footprint_action_warp_first(pole, warped) ==
  IF warped THEN "split" ELSE IF pole THEN "sort" ELSE "nominal"

(* actions 1, 2 or 3 of the header comment *)
footprint_action(pole, warped) ==
  IF pole THEN "sort" ELSE IF warped THEN "split" ELSE "nominal"

(* the code after the loop: rs the passes of the loop, pole the result of  *)
(* pole_is_covered                                                         *)
footprint_branch(satmap, sat, rs, pole) ==
  LET warped == \E a \in 1..Len(rs) : rs[a].warped
      points1 == range_circle_points(rs)
      action == footprint_action(pole, warped)
      split == split_points(satmap, sat,
                            lonlat_to_xy(satmap, sat.ssplon, sat.ssplat).x, points1)
  IN [passes |-> rs, warped |-> warped, pole |-> pole, action |-> action,
      threw |-> (action = "split" /\ split.threw),
      points1 |-> IF action = "sort" THEN sort_points_x(satmap, sat, points1)
                  ELSE IF action = "split" THEN split.points1
                  ELSE points1,
      points2 |-> IF action = "split" THEN split.points2 ELSE << >>]

(* calculate_footprint(satmap, sat): the returned [points1, points2], with *)
(* the passes of the loop, the flags warped and pole, the action taken     *)
(* and threw = TRUE when the call ends in a TypeError and returns nothing. *)
calculate_footprint(satmap, sat) ==
  footprint_branch(satmap, sat,
                   range_circle(satmap, sat, range_consts(sat), 0, 180),
                   pole_is_covered(sat))

(* the arguments with ssplat and ssplon converted to radians in place *)
footprint_args_in_place(satmap, sat) ==
  [satmap |-> satmap,
   sat |-> [sat EXCEPT !.ssplat = ToRadians(@), !.ssplon = ToRadians(@)]]

(* the argument objects as calculate_footprint and the functions it calls  *)
(* leave them: ssplat, ssplon and beta are locals, and no statement        *)
(* assigns to a field of satmap, sat or p                                  *)
footprint_args(satmap, sat) == [satmap |-> satmap, sat |-> sat]

(***************************************************************************)
(* The program as a state machine: a call of one of the two exported       *)
(* functions from the idle state, then its return.  Nothing is kept from   *)
(* one call to the next.                                                   *)
(***************************************************************************)

VARIABLES pc, qarg, qret, farg, fret

(* fobj: the argument objects of the last call of calculate_footprint as   *)
(* the call left them.  kept: an earlier call of calculate_footprint that  *)
(* the caller holds on to: its arguments as passed, the argument objects   *)
(* after it, and its result.                                               *)
VARIABLES fobj, kept

(* the state of Map in App.tsx: position and direction (useState), the     *)
(* direction of the last committed render, the direction captured by the   *)
(* closure of the running interval, and the number of ticks so far         *)
VARIABLES position, direction, rendered, captured, ticks

appvars == <<position, direction, rendered, captured, ticks>>

vars == <<pc, qarg, qret, farg, fret, fobj, kept, appvars>>

(* bounds of the inputs of qrb: multiples of 90 and 45 degrees, in range   *)
(* up to 2 and out of range beyond                                         *)
LonGrid == 3
LatGrid == 3

QrbLons == {Deg(90 * k) : k \in -LonGrid..LonGrid}
QrbLats == {Deg(45 * k) : k \in -LatGrid..LatGrid}

(* inputs of calculate_footprint.  Maps: the one App.tsx builds for a 720  *)
(* by 360 viewport, and the same raster with its origin moved.  Satellites:*)
(* near the seam on both sides, mid-map, near a pole, and one latitude out *)
(* of range.                                                               *)
SatMaps ==
  {[left_side_lon |-> Deg(-180), width |-> 720, height |-> 360, x0 |-> 0, y0 |-> 0],
   [left_side_lon |-> Deg(-180), width |-> 720, height |-> 360, x0 |-> 100, y0 |-> 50]}

SatLons == {-179500000, Deg(-175), Deg(5), Deg(100), Deg(175), 179500000}
SatLats == {Deg(-85), Deg(20), Deg(60), Deg(91)}
Footprints == {2000, 8000}

Sats == [ssplon : SatLons, ssplat : SatLats, footprint : Footprints]

NoQArg == [lon1 |-> 0, lat1 |-> 0, lon2 |-> 0, lat2 |-> 0]
NoQRet == [res |-> "none", distance |-> 0, azimuth |-> 0]
NoFArg == [satmap |-> [left_side_lon |-> 0, width |-> 0, height |-> 0, x0 |-> 0, y0 |-> 0],
           sat |-> [ssplon |-> 0, ssplat |-> 0, footprint |-> 0]]
NoFRet == [passes |-> << >>, warped |-> FALSE, pole |-> FALSE, action |-> "none",
           threw |-> FALSE, points1 |-> << >>, points2 |-> << >>]

NoKept == [set |-> FALSE, arg |-> NoFArg, obj |-> NoFArg, ret |-> NoFRet]

Init ==
  /\ pc = "idle"
  /\ qarg = NoQArg
  /\ qret = NoQRet
  /\ farg = NoFArg
  /\ fret = NoFRet
  /\ fobj = NoFArg
  /\ kept = NoKept
  /\ position = [lat |-> 0, lon |-> 0]
  /\ direction = [lat |-> 1, lon |-> 1]
  /\ rendered = [lat |-> 1, lon |-> 1]
  /\ captured = [lat |-> 1, lon |-> 1]
  /\ ticks = 0

(* a call of qrb *)
Qrb(lon1, lat1, lon2, lat2) ==
  /\ pc = "idle"
  /\ pc' = "qrb"
  /\ qarg' = [lon1 |-> lon1, lat1 |-> lat1, lon2 |-> lon2, lat2 |-> lat2]
  /\ qret' = qrb(lon1, lat1, lon2, lat2)
  /\ UNCHANGED <<farg, fret, fobj, kept, appvars>>

(* a call of calculate_footprint, as Footprint in App.tsx makes it *)
CalculateFootprint(satmap, sat) ==
  /\ pc = "idle"
  /\ pc' = "calculate_footprint"
  /\ farg' = [satmap |-> satmap, sat |-> sat]
  /\ fret' = calculate_footprint(satmap, sat)
  /\ fobj' = footprint_args(satmap, sat)
  /\ UNCHANGED <<qarg, qret, kept, appvars>>

(* the caller is done with the result *)
Return ==
  /\ pc # "idle"
  /\ pc' = "idle"
  /\ qarg' = NoQArg
  /\ qret' = NoQRet
  /\ farg' = NoFArg
  /\ fret' = NoFRet
  /\ fobj' = NoFArg
  /\ UNCHANGED <<kept, appvars>>

Next ==
  \/ \E lon1 \in QrbLons, lat1 \in QrbLats, lon2 \in QrbLons, lat2 \in QrbLats :
       Qrb(lon1, lat1, lon2, lat2)
  \/ \E satmap \in SatMaps, sat \in Sats : CalculateFootprint(satmap, sat)
  \/ Return

Spec == Init /\ [][Next]_vars

(***************************************************************************)
(* Repeated calls.  A caller keeps the argument objects and the result of  *)
(* a call, makes other calls, and calls again: with new objects of the     *)
(* same values, or with the very objects of the kept call.                 *)
(***************************************************************************)

(* a satellite for each branch: nominal, warped, pole covered *)
AgainSats ==
  {[ssplon |-> Deg(5), ssplat |-> Deg(20), footprint |-> 2000],
   [ssplon |-> Deg(-175), ssplat |-> Deg(20), footprint |-> 2000],
   [ssplon |-> Deg(100), ssplat |-> Deg(-85), footprint |-> 2000]}

AgainLons == {0, Deg(90)}
AgainLats == {0, Deg(45)}

(* the caller holds on to the call that has just returned *)
Keep ==
  /\ pc = "calculate_footprint"
  /\ ~kept.set
  /\ kept' = [set |-> TRUE, arg |-> farg, obj |-> fobj, ret |-> fret]
  /\ UNCHANGED <<pc, qarg, qret, farg, fret, fobj, appvars>>

(* calculate_footprint called with the argument objects of the kept call *)
CallAgain ==
  /\ pc = "idle"
  /\ kept.set
  /\ pc' = "again"
  /\ farg' = kept.obj
  /\ fret' = calculate_footprint(kept.obj.satmap, kept.obj.sat)
  /\ fobj' = footprint_args(kept.obj.satmap, kept.obj.sat)
  /\ UNCHANGED <<qarg, qret, kept, appvars>>

NextAgain ==
  \/ \E lon1 \in AgainLons, lat1 \in AgainLats, lon2 \in AgainLons, lat2 \in AgainLats :
       Qrb(lon1, lat1, lon2, lat2)
  \/ \E satmap \in SatMaps, sat \in AgainSats : CalculateFootprint(satmap, sat)
  \/ Keep
  \/ CallAgain
  \/ Return

SpecAgain == Init /\ [][NextAgain]_vars

(***************************************************************************)
(* Map in App.tsx: an interval moves position by direction every 16 ms.    *)
(* The callback of the interval reads the direction of the render whose    *)
(* effect created it; the effect runs again, after a render has committed  *)
(* a new direction, and replaces the interval.  Timer callbacks, renders   *)
(* and effects are separate tasks of the event loop.                       *)
(***************************************************************************)

MaxTicks == 92

(* the satmap Footprint builds, for a viewport of 720 by 360 *)
MapSatMap ==
  [left_side_lon |-> Deg(-180), width |-> 720, height |-> 360, x0 |-> 0, y0 |-> 0]

(* the sat Footprint builds from the props Map passes *)
MapSat == [ssplon |-> Deg(position.lon), ssplat |-> Deg(position.lat), footprint |-> 2000]

(* newPosition.lon after the two tests against -180 and 180 *)
wrap_lon(lon) ==
  IF lon <= -180 THEN lon + 360
  ELSE IF lon >= 180 THEN lon - 360
  ELSE lon

(* the callback of the interval: setPosition with the captured direction,  *)
(* and setDirection when the new latitude is at or beyond 80 degrees       *)
Tick ==
  /\ pc = "idle"
  /\ ticks < MaxTicks
  /\ LET newlat == position.lat + captured.lat
         newlon == position.lon + captured.lon
     IN /\ position' = [lat |-> newlat, lon |-> wrap_lon(newlon)]
        /\ direction' = IF newlat <= -80 \/ newlat >= 80
                        THEN [direction EXCEPT !.lat = -@]
                        ELSE direction
  /\ ticks' = ticks + 1
  /\ UNCHANGED <<pc, qarg, qret, farg, fret, fobj, kept, rendered, captured>>

(* a render of Map and of Footprint in it, with the state as it is now *)
Render ==
  /\ pc = "idle"
  /\ pc' = "calculate_footprint"
  /\ farg' = [satmap |-> MapSatMap, sat |-> MapSat]
  /\ fret' = calculate_footprint(MapSatMap, MapSat)
  /\ fobj' = footprint_args(MapSatMap, MapSat)
  /\ rendered' = direction
  /\ UNCHANGED <<qarg, qret, kept, position, direction, captured, ticks>>

(* the effect of a committed render whose direction is a new one:          *)
(* clearInterval, then setInterval with a callback that reads it           *)
Resubscribe ==
  /\ pc = "idle"
  /\ captured # rendered
  /\ captured' = rendered
  /\ UNCHANGED <<pc, qarg, qret, farg, fret, fobj, kept, position, direction, rendered, ticks>>

NextMap ==
  \/ Tick
  \/ Render
  \/ Resubscribe
  \/ Return

SpecMap == Init /\ [][NextMap]_vars

(***************************************************************************)
(* Properties.                                                             *)
(***************************************************************************)

InRange(lon, lat) ==
  lat >= Deg(-90) /\ lat <= Deg(90) /\ lon >= Deg(-180) /\ lon <= Deg(180)

ValidSat(sat) == InRange(sat.ssplon, sat.ssplat) /\ sat.footprint >= 0

(* the returned points, of both polylines *)
Returned == {fret.points1[i] : i \in 1..Len(fret.points1)}
              \cup {fret.points2[i] : i \in 1..Len(fret.points2)}

Left == PixScale * farg.satmap.x0
Right == PixScale * (farg.satmap.x0 + farg.satmap.width)
Top == PixScale * farg.satmap.y0
Bottom == PixScale * (farg.satmap.y0 + farg.satmap.height)

(* C1: qrb returns RIG_EINVAL with distance 0 and azimuth 0 when a         *)
(* latitude is outside [-90, 90] or a longitude outside [-180, 180], and   *)
(* RIG_OK when all four coordinates are in range.                          *)
C1_Validation ==
  pc = "qrb" =>
    IF InRange(qarg.lon1, qarg.lat1) /\ InRange(qarg.lon2, qarg.lat2)
    THEN qret.res = "RIG_OK"
    ELSE qret = [res |-> "RIG_EINVAL", distance |-> 0, azimuth |-> 0]

(* a call refused for its second longitude alone *)
C1_Witness ==
  /\ pc = "qrb"
  /\ InRange(qarg.lon1, qarg.lat1)
  /\ qarg.lat2 = Deg(45) /\ qarg.lon2 = Deg(270)
  /\ qret.res = "RIG_EINVAL"

(* C2: the azimuth of every RIG_OK result of qrb is in [0, 360).           *)
C2_AzimuthInRange ==
  (pc = "qrb" /\ qret.res = "RIG_OK") =>
    (qret.azimuth >= 0 /\ qret.azimuth < Deg(360))

(* C3: when the qrb call of the pole test returns RIG_EINVAL, neither pole *)
(* counts as covered and calculate_footprint does not take the pole branch *)
(* (sort_points_x).                                                        *)
C3_InvalidIsNotCovered ==
  (pc = "calculate_footprint" /\ north_pole_qrb(farg.sat).res = "RIG_EINVAL") =>
    /\ ~north_pole_is_covered(farg.sat)
    /\ ~south_pole_is_covered(farg.sat)
    /\ fret.action # "sort"

(* C4: for a valid satellite and a map of positive width and height,       *)
(* calculate_footprint returns: no scan of split_points leaves the array   *)
(* and no end point of an empty polyline is read.                          *)
C4_NeverThrows ==
  (/\ pc = "calculate_footprint"
   /\ ValidSat(farg.sat)
   /\ farg.satmap.width > 0 /\ farg.satmap.height > 0) => ~fret.threw

(* C5: for a valid satellite, every returned point has x in [x0, x0 +      *)
(* width] and y in [y0, y0 + height], whatever the origin of the map.      *)
C5_PointsOnMap ==
  (pc = "calculate_footprint" /\ ValidSat(farg.sat)) =>
    \A p \in Returned : /\ Left <= p.x /\ p.x <= Right
                        /\ Top <= p.y /\ p.y <= Bottom

(* C6: in the pole branch the result is one polyline of 360 points and an  *)
(* empty one; x never decreases along it; it starts at x0 and ends at      *)
(* x0 + width, both ends at y0 when ssplat > 0 and at y0 + height          *)
(* otherwise.                                                              *)
C6_PoleBranch ==
  (pc = "calculate_footprint" /\ fret.action = "sort") =>
    /\ Len(fret.points1) = 360
    /\ fret.points2 = << >>
    /\ \A i \in 1..359 : fret.points1[i].x <= fret.points1[i + 1].x
    /\ fret.points1[1].x = Left
    /\ fret.points1[360].x = Right
    /\ \A i \in {1, 360} :
         fret.points1[i].y = IF farg.sat.ssplat > 0 THEN Top ELSE Bottom

(* C7: in the warped branch the result is two non-empty polylines; the     *)
(* first and last point of each have the same x, x0 or x0 + width, and the *)
(* two polylines are on opposite edges.                                    *)
C7_WarpedBranch ==
  (pc = "calculate_footprint" /\ fret.action = "split") =>
    /\ ~fret.threw
    /\ fret.points1 # << >>
    /\ fret.points2 # << >>
    /\ fret.points1[1].x = fret.points1[Len(fret.points1)].x
    /\ fret.points2[1].x = fret.points2[Len(fret.points2)].x
    /\ {fret.points1[1].x, fret.points2[1].x} = {Left, Right}

(* C8: the branch is one of three, the pole test first: sort_points_x when *)
(* a pole is covered (split_points is not called then), split_points when  *)
(* none is and a pass was warped, and otherwise the samples as they are:   *)
(* the sample of pass a at index a, its mirror at index 359 - a, and an    *)
(* empty second polyline.                                                  *)
C8_Classification ==
  pc = "calculate_footprint" =>
    /\ fret.pole = (north_pole_is_covered(farg.sat) \/ south_pole_is_covered(farg.sat))
    /\ fret.warped = (\E a \in 1..Len(fret.passes) : fret.passes[a].warped)
    /\ fret.pole => fret.action = "sort"
    /\ (~fret.pole /\ fret.warped) => fret.action = "split"
    /\ (~fret.pole /\ ~fret.warped) =>
         /\ fret.action = "nominal"
         /\ ~fret.threw
         /\ Len(fret.passes) = 180
         /\ Len(fret.points1) = 360
         /\ \A a \in 0..179 : /\ At(fret.points1, a) = fret.passes[a + 1].s
                              /\ At(fret.points1, 359 - a) = fret.passes[a + 1].ms
         /\ fret.points2 = << >>

(* a footprint away from the poles and from the seam of the map *)
C8_Witness ==
  /\ pc = "calculate_footprint"
  /\ ~fret.pole /\ ~fret.warped
  /\ fret.action = "nominal"
  /\ Len(fret.points1) = 360

(* C9: for valid A and B, qrb(A, B) and qrb(B, A) return the same          *)
(* distance.                                                               *)
C9_DistanceSymmetric ==
  (pc = "qrb" /\ qret.res = "RIG_OK") =>
    qret.distance = qrb(qarg.lon2, qarg.lat2, qarg.lon1, qarg.lat1).distance

(* a pole, nudged, against a point of another latitude and longitude *)
C9_Witness ==
  /\ pc = "qrb" /\ qret.res = "RIG_OK"
  /\ qarg.lat1 = Deg(90) /\ qarg.lat2 = Deg(-45)
  /\ qarg.lon1 = Deg(90) /\ qarg.lon2 = Deg(-180)
  /\ qret.distance > 0

(* the two points are antipodes *)
Antipodes(lon1, lat1, lon2, lat2) ==
  /\ lat2 = -lat1
  /\ (Abs(lon1 - lon2) = Deg(180) \/ Abs(lat1) = Deg(90))

(* C10: qrb on valid antipodal points returns RIG_OK, distance 180 * 111.2 *)
(* = 20016 km and azimuth 0.                                               *)
C10_Antipodal ==
  (/\ pc = "qrb"
   /\ InRange(qarg.lon1, qarg.lat1) /\ InRange(qarg.lon2, qarg.lat2)
   /\ Antipodes(qarg.lon1, qarg.lat1, qarg.lon2, qarg.lat2)) =>
    qret = [res |-> "RIG_OK", distance |-> 20016 * 1000, azimuth |-> 0]

(* qrb(0, 0, 180, 0) *)
C10_Witness ==
  /\ pc = "qrb"
  /\ qarg = [lon1 |-> 0, lat1 |-> 0, lon2 |-> Deg(180), lat2 |-> 0]
  /\ qret.distance = 20016 * 1000

(* C11: qrb on two identical valid points, the poles included, returns     *)
(* RIG_OK with distance 0 and azimuth 0.                                   *)
C11_Identical ==
  (/\ pc = "qrb"
   /\ InRange(qarg.lon1, qarg.lat1)
   /\ qarg.lon2 = qarg.lon1 /\ qarg.lat2 = qarg.lat1) =>
    qret = [res |-> "RIG_OK", distance |-> 0, azimuth |-> 0]

(* the north pole against itself, at a longitude other than 0 *)
C11_Witness ==
  /\ pc = "qrb"
  /\ qarg = [lon1 |-> Deg(90), lat1 |-> Deg(90), lon2 |-> Deg(90), lat2 |-> Deg(90)]
  /\ qret = [res |-> "RIG_OK", distance |-> 0, azimuth |-> 0]

Occurrences(ps, p) == Cardinality({i \in 1..Len(ps) : ps[i] = p})

(* how often a point of height y occurs in ps *)
OccurrencesY(ps, y) == Cardinality({i \in 1..Len(ps) : ps[i].y = y})

(* a polyline without its two end points, the ones split_points moves to a *)
(* border of the map                                                       *)
Interior(ps) == IF Len(ps) <= 2 THEN << >> ELSE SubSeq(ps, 2, Len(ps) - 1)

(* C13: in every branch the two returned polylines hold 360 points in all; *)
(* in the warped branch every one of the 360 points of the range circle is *)
(* in exactly one of them: the heights occur as often as on the circle,    *)
(* and no point other than the moved end points occurs more often than on  *)
(* the circle.                                                             *)
C13_AllPointsKept ==
  pc = "calculate_footprint" =>
    LET circle == range_circle_points(fret.passes)
        both == fret.points1 \o fret.points2
        inner == Interior(fret.points1) \o Interior(fret.points2)
    IN /\ Len(fret.points1) + Len(fret.points2) = 360
       /\ fret.action = "split" =>
            /\ \A i \in 1..Len(circle) :
                 OccurrencesY(both, circle[i].y) = OccurrencesY(circle, circle[i].y)
            /\ \A i \in 1..Len(inner) :
                 Occurrences(inner, inner[i]) <= Occurrences(circle, inner[i])

(* C14: whatever the order of the ticks of the interval, the renders and   *)
(* the runs of the effect, the position Map hands to calculate_footprint   *)
(* has its latitude in [-90, 90] and its longitude in [-180, 180].         *)
C14_PositionInRange ==
  pc = "calculate_footprint" =>
    /\ farg.sat.ssplat >= Deg(-90) /\ farg.sat.ssplat <= Deg(90)
    /\ farg.sat.ssplon >= Deg(-180) /\ farg.sat.ssplon <= Deg(180)

=============================================================================
